---- MODULE Spec2Model ----
(***************************************************************************)
(* A model of src/confluence_downloader.py: main(), the constructor of     *)
(* ConfluenceDownloader, get_all_pages_in_space, download_attachments and  *)
(* download_space.  Text (URLs, titles, file names) is a sequence of       *)
(* one-character strings, so that parsing and sanitizing work character by *)
(* character as the code does.  The remote server and the file system are  *)
(* the environment: what a call returns, and whether it raises, is chosen  *)
(* when the call is made.                                                  *)
(***************************************************************************)
EXTENDS Integers, Sequences, FiniteSets, TLC

\* ------------------------------------------------------------------ bounds

\* Largest number of pages of the space in a full run (Spec).
MaxPages == 2
\* Largest number of attachments one page has.
MaxAttachments == 2
\* Largest number of pages of the space when only the listing runs (PagingSpec).
MaxListed == 201
\* Longest site URL of UrlSpec and longest page title of TitleSpec.
MaxUrlLen == 5
MaxTitleLen == 3

\* ------------------------------------------------------------------ text

\* A value that may be absent is a sequence of at most one element: <<v>> is
\* the value v.
Some(v) == <<v>>
\* A dictionary key that is absent (reading it raises KeyError).
Missing == <<>>
\* A local variable that has not been assigned yet (reading it raises NameError).
Unbound == <<>>

Letters == {"a", "b", "h", "Q", "R", "D", "e", "p", "o", "r", "t", "f"}
Digits == {"1", "2"}
\* str.isalnum() on one character.
isalnum(c) == c \in Letters \/ c \in Digits
\* What str.rstrip() without argument removes.
Whitespace == {" ", "\t", "\n"}

\* All sequences over alphabet of length at most n.
SeqsUpTo(alphabet, n) == UNION {[1..k -> alphabet] : k \in 0..n}

\* s.rstrip(chars): the trailing characters of s that are in chars removed.
RECURSIVE rstrip(_, _)
rstrip(s, chars) ==
    IF s = <<>> THEN s
    ELSE IF s[Len(s)] \in chars THEN rstrip(SubSeq(s, 1, Len(s) - 1), chars)
    ELSE s

\* s.find(c): the first position of c in s (from 1), 0 when c is not in s.
find(s, c) ==
    IF \E k \in 1..Len(s) : s[k] = c
    THEN CHOOSE k \in 1..Len(s) : s[k] = c /\ \A m \in 1..(k - 1) : s[m] # c
    ELSE 0

\* ------------------------------------------------------------------ urlparse

\* urllib.parse.scheme_chars, on the model's alphabet.
scheme_chars == Letters \cup Digits \cup {"+", "-", "."}
\* The characters that end the network location (urllib.parse._splitnetloc).
NetlocDelims == {"/", "?", "#"}

\* The length of the longest prefix of s without a character of NetlocDelims.
RECURSIVE NetlocEnd(_)
NetlocEnd(s) ==
    IF s = <<>> \/ Head(s) \in NetlocDelims THEN 0 ELSE 1 + NetlocEnd(Tail(s))

\* urlparse(url), its scheme and netloc: the scheme is what precedes the first
\* ":" when that is a letter followed by scheme characters; the netloc is what
\* follows a "//" at the start of the rest, up to the next "/", "?" or "#".
urlparse(url) ==
    LET i == find(url, ":")
        hasScheme == /\ i > 1
                     /\ url[1] \in Letters
                     /\ \A k \in 1..(i - 1) : url[k] \in scheme_chars
        scheme == IF hasScheme THEN SubSeq(url, 1, i - 1) ELSE <<>>
        rest == IF hasScheme THEN SubSeq(url, i + 1, Len(url)) ELSE url
        hasNetloc == Len(rest) >= 2 /\ rest[1] = "/" /\ rest[2] = "/"
        after == IF hasNetloc THEN SubSeq(rest, 3, Len(rest)) ELSE <<>>
    IN  [scheme |-> scheme, netloc |-> SubSeq(after, 1, NetlocEnd(after))]

\* Lines 24-26 without the test of netloc.
InvalidSiteUrl_schemeOnly(url) == urlparse(url).scheme = <<>>

\* Lines 24-26: the constructor raises ValueError for this URL.
InvalidSiteUrl(url) ==
    LET parsed_url == urlparse(url)
    IN  parsed_url.scheme = <<>> \/ parsed_url.netloc = <<>>

\* ------------------------------------------------------------------ titles

\* Line 190, the generator's condition: the character is kept.
KeptChar(c) == isalnum(c) \/ c \in {" ", "-", "_"}

\* Line 190, "".join(c for c in page_title if ...): the kept characters in order.
RECURSIVE JoinKept(_)
JoinKept(t) ==
    IF t = <<>> THEN <<>>
    ELSE (IF KeptChar(Head(t)) THEN <<Head(t)>> ELSE <<>>) \o JoinKept(Tail(t))

\* s.lstrip(chars): the leading characters of s that are in chars removed.
RECURSIVE lstrip(_, _)
lstrip(s, chars) ==
    IF s = <<>> THEN s
    ELSE IF Head(s) \in chars THEN lstrip(Tail(s), chars)
    ELSE s

\* Line 190 with strip() for rstrip().
SafeTitle_strip(page_title) ==
    lstrip(rstrip(JoinKept(page_title), Whitespace), Whitespace)

\* Line 190: safe_title.
SafeTitle(page_title) == rstrip(JoinKept(page_title), Whitespace)

\* Line 191: page_file = space_dir / f"{safe_title}.md".
PageFile(safe) == [dir |-> "space_dir", name |-> safe \o <<".md">>]

\* Lines 97, 116: file_path = output_dir / 'attachments' / filename, where
\* download_space passes space_dir as output_dir (line 200).
AttachmentPath(output_dir, fname) ==
    [dir |-> <<output_dir, "attachments">>, name |-> fname]

\* Line 125: os.path.join('attachments', filename).
ManifestEntry(fname) == [filename |-> fname, path |-> <<"attachments", fname>>]

\* ------------------------------------------------------------------ state

\* Line 56: limit, the batch size of the page listing.
limit == 100

VARIABLES
    pc,                  \* where the run is: "main", "download", "list", "listed",
                         \* "page", "attachments", "attachment", "write", "done", "exit1"
    site_url,            \* main's site_url (line 226)
    self_site_url,       \* self.site_url (line 28)
    clientConstructed,   \* self.confluence exists (line 29)
    urlRejected,         \* the constructor raised ValueError (line 26)
    space,               \* the server: the page summaries of the space, in its order
    dirCreated,          \* space_dir exists (line 171)
    start,               \* get_all_pages_in_space: start
    pages,               \* get_all_pages_in_space: pages, then download_space: pages
    requests,            \* the start offsets of the listing requests issued so far
    listErrorPrinted,    \* line 78 printed the listing error
    noPagesReported,     \* line 178 printed "No pages found"
    completionReported,  \* line 218 printed "Download completed!"
    i,                   \* download_space: the position in pages of the loop's page
    page_title,          \* download_space: page_title (unbound before line 187 ran)
    page_file,           \* download_space: page_file (line 191)
    bodyFetched,         \* the positions of the pages whose body was requested
    attachments,         \* download_attachments: attachments['results']
    j,                   \* download_attachments: the position of the loop's attachment
    filename,            \* download_attachments: filename (unbound before line 102 ran)
    downloaded_attachments, \* download_attachments: the manifest being built
    loopEntered,         \* this call of download_attachments reached line 100
    visited,             \* the positions of attachments the loop has taken up
    complete,            \* the positions of attachments whose file was written in full
    attFiles,            \* the attachment files on disk: path -> what it holds
    docs,                \* the document files on disk: path -> what it holds
    okPages,             \* the positions of the pages whose iteration ended at line 213
    failedPages          \* the positions of the pages whose iteration ended at line 216

vars == <<pc, site_url, self_site_url, clientConstructed, urlRejected, space,
          dirCreated, start, pages, requests, listErrorPrinted, noPagesReported,
          completionReported, i, page_title, page_file, bodyFetched,
          attachments, j,
          filename, downloaded_attachments, loopEntered, visited, complete,
          attFiles, docs, okPages, failedPages>>

listVars == <<start, pages, requests, listErrorPrinted>>
reportVars == <<noPagesReported, completionReported>>
pageVars == <<i, page_title, page_file, bodyFetched, okPages, failedPages>>
attVars == <<attachments, j, filename, downloaded_attachments, loopEntered,
             visited, complete>>
fileVars == <<attFiles, docs>>
ctorVars == <<site_url, self_site_url, clientConstructed, urlRejected>>

\* The function f with x mapped to v (x added to its domain when new).
Put(f, x, v) == [y \in DOMAIN f \cup {x} |-> IF y = x THEN v ELSE f[y]]
\* The function with the empty domain: a directory without files.
NoFiles == [x \in {} |-> x]

\* Lines 117-120 opening the file with mode 'xb' and passing over the error: a
\* file that exists is left as it is.
WriteFile_keepsExisting(files, path, data) ==
    IF path \in DOMAIN files THEN files ELSE Put(files, path, data)

\* Lines 117-120: open(file_path, 'wb') creates the file or truncates the one
\* that is there, and the writes leave it holding data.
WriteFile(files, path, data) == Put(files, path, data)

\* ------------------------------------------------------------------ inputs

UrlAlphabet == {"h", ":", "/", "#"}
\* The site URLs of a full run: h://h/, and h:/h, which the constructor rejects.
SiteUrls == {<<"h", ":", "/", "/", "h", "/">>, <<"h", ":", "/", "h">>}

\* The page titles of a full run: "a", "a/" and "b ".
Titles == {<<"a">>, <<"a", "/">>, <<"b", " ">>}
\* The attachment file names.
Filenames == {<<"f">>, <<"g">>}

\* The summaries page k of a space can have: id k and a title of Titles, or
\* one without the 'title' key, or one without the 'id' key.
Summaries(k) ==
    {[id |-> Some(k), title |-> Some(t)] : t \in Titles}
    \cup {[id |-> Some(k), title |-> Missing], [id |-> Missing, title |-> Some(<<"a">>)]}

\* The spaces of n pages.
SpacesOf(n) == {sp \in [1..n -> UNION {Summaries(k) : k \in 1..n}] :
                  \A k \in 1..n : sp[k] \in Summaries(k)}

\* The space of n well-formed pages titled "a".
PlainSpace(n) == [k \in 1..n |-> [id |-> Some(k), title |-> Some(<<"a">>)]]

\* The records attachment k of a page can have: id k and a file name of
\* Filenames, or one without the 'title' key, or one without the 'id' key.
AttachmentRecords(k) ==
    {[id |-> Some(k), title |-> Some(f)] : f \in Filenames}
    \cup {[id |-> Some(k), title |-> Missing], [id |-> Missing, title |-> Some(<<"f">>)]}

\* What list-attachments can answer for a page: up to MaxAttachments records, no
\* two with the same file name.
AttachmentLists ==
    UNION {{recs \in [1..n -> UNION {AttachmentRecords(k) : k \in 1..n}] :
              /\ \A k \in 1..n : recs[k] \in AttachmentRecords(k)
              /\ \A a, b \in 1..n :
                    (a # b /\ recs[a].title # Missing) => recs[a].title # recs[b].title} :
           n \in 0..MaxAttachments}

\* Everything but pc, site_url and space, as it is when main starts.
Blank ==
    /\ self_site_url = Unbound
    /\ clientConstructed = FALSE
    /\ urlRejected = FALSE
    /\ dirCreated = FALSE
    /\ start = 0
    /\ pages = <<>>
    /\ requests = <<>>
    /\ listErrorPrinted = FALSE
    /\ noPagesReported = FALSE
    /\ completionReported = FALSE
    /\ i = 0
    /\ page_title = Unbound
    /\ page_file = Unbound
    /\ bodyFetched = {}
    /\ attachments = <<>>
    /\ j = 0
    /\ filename = Unbound
    /\ downloaded_attachments = <<>>
    /\ loopEntered = FALSE
    /\ visited = {}
    /\ complete = {}
    /\ attFiles = NoFiles
    /\ docs = NoFiles
    /\ okPages = {}
    /\ failedPages = {}

\* A full run: main starts with one of SiteUrls against a space of up to MaxPages pages.
Init ==
    /\ pc = "main"
    /\ site_url \in SiteUrls
    /\ space \in UNION {SpacesOf(n) : n \in 0..MaxPages}
    /\ Blank

\* A site URL with scheme and host, for the runs that are about something else.
PlainUrl == <<"h", ":", "/", "/", "h">>

\* Only the listing runs: a space of up to MaxListed well-formed pages.
PagingInit ==
    /\ pc = "main"
    /\ site_url = PlainUrl
    /\ space \in {PlainSpace(n) : n \in 0..MaxListed}
    /\ Blank

\* The constructor's check: every site URL of up to MaxUrlLen characters, against
\* an empty space.
UrlInit ==
    /\ pc = "main"
    /\ site_url \in SeqsUpTo(UrlAlphabet, MaxUrlLen)
    /\ space = <<>>
    /\ Blank

TitleAlphabet == {"a", "1", " ", "-", "_", "/", "\t"}
\* The title of the spec's example, Q1/Q2 Report: Draft!
ExampleTitle == <<"Q", "1", "/", "Q", "2", " ", "R", "e", "p", "o", "r", "t", ":",
                  " ", "D", "r", "a", "f", "t", "!">>

\* The file name of a page: a space of one page, with every title of up to
\* MaxTitleLen characters and the example's.
TitleInit ==
    /\ pc = "main"
    /\ site_url = PlainUrl
    /\ space \in {<<[id |-> Some(1), title |-> Some(t)]>> :
                    t \in SeqsUpTo(TitleAlphabet, MaxTitleLen) \cup {ExampleTitle}}
    /\ Blank

\* ------------------------------------------------------------------ main, __init__

\* Lines 232-237 with lines 23-34: main constructs the downloader.  An invalid
\* URL raises ValueError before the client is built; the client's constructor
\* may raise; either exception reaches main's handler, which exits with 1.
Construct ==
    /\ pc = "main"
    /\ \E clientOk \in BOOLEAN :
          IF InvalidSiteUrl(site_url)
          THEN /\ urlRejected' = TRUE
               /\ pc' = "exit1"
               /\ UNCHANGED <<self_site_url, clientConstructed>>
          ELSE /\ self_site_url' = Some(rstrip(site_url, {"/"}))
               /\ clientConstructed' = clientOk
               /\ pc' = IF clientOk THEN "download" ELSE "exit1"
               /\ UNCHANGED urlRejected
    /\ UNCHANGED <<site_url, space, dirCreated, listVars, reportVars, pageVars,
                   attVars, fileVars>>

\* ------------------------------------------------------------------ listing

\* Lines 165-171 and 55-57: download_space creates space_dir (an OSError reaches
\* main's handler) and get_all_pages_in_space starts at offset 0.
DownloadSpaceBegin ==
    /\ pc = "download"
    /\ \E mkdirOk \in BOOLEAN :
          /\ dirCreated' = mkdirOk
          /\ pc' = IF mkdirOk THEN "list" ELSE "exit1"
    /\ start' = 0
    /\ pages' = <<>>
    /\ UNCHANGED <<ctorVars, space, requests, listErrorPrinted, reportVars,
                   pageVars, attVars, fileVars>>

\* Lines 60-65: the server's answer to a request (start, limit): the pages at
\* positions start .. start+limit-1 of the space (positions counted from 0).
Batch(st, lim) ==
    SubSeq(space, st + 1, IF st + lim < Len(space) THEN st + lim ELSE Len(space))

\* Line 73 with <= for <: a full batch ends the listing too.
ShortBatch_orFull(results) == Len(results) <= limit

\* Line 73: the batch is short, so it is the last one.
ShortBatch(results) == Len(results) < limit

\* Lines 77-79 returning the pages collected before the request that raised.
OnListError_keepsPages(collected) == collected

\* Lines 77-79: what get_all_pages_in_space returns when a request raised.
OnListError(collected) == <<>>

\* Lines 59-79: one turn of the listing loop.  The request is issued; when it
\* raises, the handler prints the error and the listing returns [].
ListBatch ==
    /\ pc = "list"
    /\ requests' = Append(requests, start)
    /\ \E ok \in BOOLEAN :
          IF ~ok
          THEN /\ listErrorPrinted' = TRUE
               /\ pages' = OnListError(pages)
               /\ pc' = "listed"
               /\ UNCHANGED start
          ELSE LET results == Batch(start, limit)
               IN  /\ UNCHANGED listErrorPrinted
                   /\ IF results = <<>>
                      THEN /\ pc' = "listed"
                           /\ UNCHANGED <<pages, start>>
                      ELSE /\ pages' = pages \o results
                           /\ start' = start + limit
                           /\ pc' = IF ShortBatch(results) THEN "listed" ELSE "list"
    /\ UNCHANGED <<ctorVars, space, dirCreated, reportVars, pageVars, attVars,
                   fileVars>>

\* Lines 177-184 without the early return of lines 177-179: the loop starts
\* over no pages and the run reports completion.
AfterListing_noEarlyReturn ==
    /\ pc = "listed"
    /\ i' = 1
    /\ pc' = "page"
    /\ UNCHANGED <<ctorVars, space, dirCreated, listVars, reportVars,
                   page_title, page_file, bodyFetched, okPages,
                   failedPages, attVars, fileVars>>

\* Lines 177-184: no pages, so "No pages found" and return; else the loop starts.
AfterListing ==
    /\ pc = "listed"
    /\ IF pages = <<>>
       THEN /\ noPagesReported' = TRUE
            /\ pc' = "done"
            /\ UNCHANGED i
       ELSE /\ i' = 1
            /\ pc' = "page"
            /\ UNCHANGED noPagesReported
    /\ UNCHANGED <<ctorVars, space, dirCreated, listVars, completionReported,
                   page_title, page_file, bodyFetched, okPages,
                   failedPages,
                   attVars, fileVars>>

\* ------------------------------------------------------------------ pages

\* download_attachments' locals, as they are outside a call.
AttachmentsIdle ==
    /\ attachments' = <<>>
    /\ j' = 0
    /\ filename' = Unbound
    /\ downloaded_attachments' = <<>>
    /\ loopEntered' = FALSE
    /\ visited' = {}
    /\ complete' = {}

\* Lines 215-216: the handler of the page loop.  It prints page_title (title is
\* its value when the handler runs): while page_title is unbound the print
\* raises NameError, which leaves download_space and reaches main's handler.
PageHandler(title) ==
    IF title = Unbound
    THEN /\ pc' = "exit1"
         /\ UNCHANGED <<i, failedPages>>
    ELSE /\ failedPages' = failedPages \cup {i}
         /\ i' = i + 1
         /\ pc' = "page"

\* Lines 184-197: the loop takes up page i, reads its id and title (a missing key
\* raises KeyError), derives the file name and requests the body, which may raise.
PageBegin ==
    /\ pc = "page"
    /\ i <= Len(pages)
    /\ LET page == pages[i]
           read == page.id # Missing /\ page.title # Missing
       IN  \E answered \in BOOLEAN :
              IF read
              THEN /\ page_title' = page.title
                   /\ page_file' = Some(PageFile(SafeTitle(page.title[1])))
                   /\ bodyFetched' = bodyFetched \cup {i}
                   /\ IF answered
                      THEN /\ pc' = "attachments"
                           /\ UNCHANGED <<i, failedPages>>
                      ELSE PageHandler(page.title)
              ELSE /\ PageHandler(page_title)
                   /\ UNCHANGED <<page_title, page_file, bodyFetched>>
    /\ UNCHANGED <<ctorVars, space, dirCreated, listVars, reportVars, okPages,
                   attVars, fileVars>>

\* Line 218: the loop is over; download_space reports completion and returns.
PageLoopEnd ==
    /\ pc = "page"
    /\ i > Len(pages)
    /\ completionReported' = TRUE
    /\ pc' = "done"
    /\ UNCHANGED <<ctorVars, space, dirCreated, listVars, noPagesReported,
                   pageVars, attVars, fileVars>>

\* ------------------------------------------------------------------ attachments

\* Lines 91-98 and 131-134: download_attachments asks for the page's attachments.
\* The call raising, an answer without results, or the mkdir raising end the
\* call with an empty manifest; otherwise the loop starts.
GetAttachments ==
    /\ pc = "attachments"
    /\ \E raised \in BOOLEAN, results \in AttachmentLists, mkdirOk \in BOOLEAN :
          IF raised \/ results = <<>> \/ ~mkdirOk
          THEN /\ AttachmentsIdle
               /\ pc' = "write"
          ELSE /\ attachments' = results
               /\ j' = 1
               /\ filename' = Unbound
               /\ downloaded_attachments' = <<>>
               /\ loopEntered' = TRUE
               /\ visited' = {}
               /\ complete' = {}
               /\ pc' = "attachment"
    /\ UNCHANGED <<ctorVars, space, dirCreated, listVars, reportVars, pageVars,
                   fileVars>>

\* Lines 128-133: the handler of the attachment loop prints filename (fname is
\* its value when the handler runs).  While filename is unbound the print raises
\* NameError, which the handler of line 131 catches: the call returns what it has.
AttachmentHandlerAborts(fname) == fname = Unbound

\* Lines 100-129: the loop takes up attachment j: reads its title and id,
\* requests the bytes, opens the file (creating or truncating it) and writes it,
\* then adds the manifest entry.  After the last attachment the call returns.
DownloadAttachment ==
    /\ pc = "attachment"
    /\ LET attachment == attachments[j]
           fname == IF attachment.title # Missing THEN attachment.title ELSE filename
           read == attachment.title # Missing /\ attachment.id # Missing
           file_path == AttachmentPath("space_dir", fname[1])
           page_id == pages[i].id[1]
       IN  \E net \in {"ok", "http_error", "open_error", "write_error"} :
              /\ visited' = visited \cup {j}
              /\ filename' = fname
              /\ IF read /\ net \in {"ok", "write_error"}
                 THEN attFiles' = WriteFile(attFiles, file_path,
                                            [page |-> page_id, full |-> net = "ok"])
                 ELSE UNCHANGED attFiles
              /\ IF read /\ net = "ok"
                 THEN /\ complete' = complete \cup {j}
                      /\ downloaded_attachments' =
                            Append(downloaded_attachments, ManifestEntry(fname[1]))
                 ELSE UNCHANGED <<complete, downloaded_attachments>>
              /\ IF \/ (~(read /\ net = "ok") /\ AttachmentHandlerAborts(fname))
                    \/ j = Len(attachments)
                 THEN /\ pc' = "write"
                      /\ UNCHANGED j
                 ELSE /\ j' = j + 1
                      /\ UNCHANGED pc
    /\ UNCHANGED <<ctorVars, space, dirCreated, listVars, reportVars, pageVars,
                   attachments, loopEntered, docs>>

\* ------------------------------------------------------------------ the document

\* Lines 136-155 and 209: the document of a page: the title heading, the
\* converted body and the attachment section listing the manifest.
FullContent(title, value, manifest) ==
    [title |-> title, body |-> value, attachments |-> manifest]

\* Lines 203-216: the body's value is read and converted (KeyError when the
\* answer lacks it, or the converter raises), the file is opened (created or
\* truncated) and written.  A failure ends the page in the handler; page_title
\* is bound here.
WriteDocument ==
    /\ pc = "write"
    /\ \E io \in {"ok", "convert_error", "open_error", "write_error"} :
          LET opened == io \in {"ok", "write_error"}
              written == io = "ok"
          IN  /\ IF opened
                 THEN docs' = Put(docs, page_file[1],
                                  [page |-> i, full |-> written,
                                   text |-> FullContent(page_title[1], "html",
                                                        downloaded_attachments)])
                 ELSE UNCHANGED docs
              /\ IF written
                 THEN /\ okPages' = okPages \cup {i}
                      /\ i' = i + 1
                      /\ pc' = "page"
                      /\ UNCHANGED failedPages
                 ELSE /\ PageHandler(page_title)
                      /\ UNCHANGED okPages
    /\ AttachmentsIdle
    /\ UNCHANGED <<ctorVars, space, dirCreated, listVars, reportVars, page_title,
                   page_file, bodyFetched, attFiles>>

\* ------------------------------------------------------------------ specifications

Next ==
    \/ Construct
    \/ DownloadSpaceBegin
    \/ ListBatch
    \/ AfterListing
    \/ PageBegin
    \/ PageLoopEnd
    \/ GetAttachments
    \/ DownloadAttachment
    \/ WriteDocument

Spec == Init /\ [][Next]_vars

\* main up to the end of the listing.
ListingNext ==
    \/ Construct
    \/ DownloadSpaceBegin
    \/ ListBatch
    \/ AfterListing

PagingSpec == PagingInit /\ [][ListingNext]_vars

UrlSpec == UrlInit /\ [][ListingNext]_vars

\* main up to the point where the page's file name is derived.
TitleNext ==
    \/ ListingNext
    \/ PageBegin

TitleSpec == TitleInit /\ [][TitleNext]_vars

\* ------------------------------------------------------------------ the listing

\* ceil(n / b).
Ceil(n, b) == (n + b - 1) \div b

\* The listing is over: get_all_pages_in_space has returned.
Listed == pc \in {"listed", "done"} \/ i >= 1

\* C1: against a server that holds N pages and answers every request (start,
\* limit) with the pages at positions start .. start+limit-1, the listing
\* requests the offsets 0, limit, 2*limit, ... only, every request but the last
\* one was answered with a full batch (so nothing is requested after an empty or
\* short batch), and when it has returned it has returned exactly the N pages in
\* the server's order and has issued ceil(N/limit) requests when N is not a
\* multiple of limit and ceil(N/limit)+1 when it is (N = 0 included).  The
\* number of requests is bounded, so the loop ends.
C1_Pagination ==
    LET N == Len(space)
    IN  /\ \A k \in 1..Len(requests) : requests[k] = (k - 1) * limit
        /\ ~listErrorPrinted =>
              /\ \A k \in 1..(Len(requests) - 1) : Len(Batch(requests[k], limit)) = limit
              /\ Len(requests) <= Ceil(N, limit) + 1
              /\ Listed =>
                    /\ pages = space
                    /\ Len(requests) = IF N % limit = 0 THEN Ceil(N, limit) + 1
                                       ELSE Ceil(N, limit)

\* C1's case: 200 pages (a multiple of the batch size) were listed in two full
\* batches and a third, empty one.
C1_Witness ==
    /\ Listed
    /\ ~listErrorPrinted
    /\ Len(space) = 2 * limit
    /\ Len(pages) = 2 * limit
    /\ requests = <<0, limit, 2 * limit>>

\* C5 as stated: when a batch request fails, no page work is done, no document
\* is written, and the run does not end as the run over an empty space does
\* (download_space returning normally after "No pages found").
C5_ListingFailureAborts ==
    listErrorPrinted =>
        /\ i = 0
        /\ bodyFetched = {}
        /\ docs = NoFiles
        /\ ~(pc = "done" /\ noPagesReported)

\* C5, amended: when a batch request fails, the first or a later one, the error
\* is printed and the listing returns no pages, those of the earlier batches
\* included; no page work is done and no file is written; download_space then
\* reports "No pages found" and returns normally, as it does for an empty space.
C5_ListingFailureIsEmptySpace ==
    listErrorPrinted =>
        /\ pages = <<>>
        /\ i = 0
        /\ bodyFetched = {}
        /\ docs = NoFiles
        /\ attFiles = NoFiles
        /\ pc \in {"listed", "done"}
        /\ pc = "done" => (noPagesReported /\ ~completionReported)

\* C5's case: the second batch request failed after a full first batch, and the
\* run ended with "No pages found".
C5_Witness ==
    /\ listErrorPrinted
    /\ requests = <<0, limit>>
    /\ Len(space) >= limit
    /\ pc = "done"
    /\ noPagesReported

\* C7: when the first batch of the listing comes back empty, the workspace
\* directory has been created, no second request is made, no page body and no
\* attachment is fetched, no file is written, and download_space reports "No
\* pages found" and returns normally: main does not exit with status 1.
C7_EmptySpace ==
    (space = <<>> /\ requests # <<>> /\ ~listErrorPrinted) =>
        /\ dirCreated
        /\ requests = <<0>>
        /\ i = 0
        /\ bodyFetched = {}
        /\ attFiles = NoFiles
        /\ docs = NoFiles
        /\ pc \in {"listed", "done"}
        /\ pc = "done" => (noPagesReported /\ ~completionReported)

\* C7's case: the run over an empty space has ended.
C7_Witness ==
    /\ space = <<>>
    /\ requests = <<0>>
    /\ ~listErrorPrinted
    /\ pc = "done"
    /\ noPagesReported

\* ------------------------------------------------------------------ the site URL

\* The URL has a scheme and a host: it reads <scheme>://<host>..., the scheme a
\* letter followed by scheme characters and the host (the network location,
\* what urlparse calls netloc) at least one character that is none of / ? #.
HasSchemeAndHost(url) ==
    \E k \in 2..Len(url) :
        /\ url[k] = ":"
        /\ url[1] \in Letters
        /\ \A m \in 1..(k - 1) : url[m] \in Letters \cup Digits \cup {"+", "-", "."}
        /\ Len(url) >= k + 3
        /\ url[k + 1] = "/"
        /\ url[k + 2] = "/"
        /\ url[k + 3] \notin {"/", "?", "#"}

Allowed(c) == c \in Letters \cup Digits \cup {" ", "-", "_"}

\* The file name of the spec's example, Q1Q2 Report Draft.md
ExampleFileName == <<"Q", "1", "Q", "2", " ", "R", "e", "p", "o", "r", "t", " ",
                     "D", "r", "a", "f", "t", ".md">>

\* C9: the document path of the page being processed is <workspace
\* directory>/<sanitized title>.md, where the sanitized title is the title's
\* allowed characters (alphanumeric, space, hyphen, underscore) in their order,
\* cut after the last one that is not whitespace: leading whitespace stays.
\* The title Q1/Q2 Report: Draft! gives Q1Q2 Report Draft.md.
C9_Sanitization ==
    page_file # Unbound =>
        LET kept == SelectSeq(page_title[1], Allowed)
            name == page_file[1].name
            safe == SubSeq(name, 1, Len(name) - 1)
        IN  /\ page_file[1].dir = "space_dir"
            /\ Len(name) >= 1
            /\ name[Len(name)] = ".md"
            /\ Len(safe) <= Len(kept)
            /\ safe = SubSeq(kept, 1, Len(safe))
            /\ \A k \in (Len(safe) + 1)..Len(kept) : kept[k] \in Whitespace
            /\ safe # <<>> => safe[Len(safe)] \notin Whitespace
            /\ page_title[1] = ExampleTitle => name = ExampleFileName

\* C9's case: the example's title has been sanitized.
C9_Witness ==
    /\ page_title = Some(ExampleTitle)
    /\ page_file = Some([dir |-> "space_dir", name |-> ExampleFileName])

\* ------------------------------------------------------------------ the pages

\* The run is over: download_space returned, or main exited with status 1.
Ended == pc \in {"done", "exit1"}

\* The document path of page k of the listing (its summary has a title).
PageFileOf(k) == PageFile(SafeTitle(pages[k].title[1]))

\* C2 as stated: once the page loop has started, a page's failure never takes
\* the run out of the loop: main does not exit with status 1, and when
\* download_space has returned it has reported completion, every page of the
\* listing was processed, and every page that did not fail has its document.
C2_PageFailureIsolated ==
    i >= 1 =>
        /\ pc # "exit1"
        /\ pc = "done" =>
              /\ completionReported
              /\ okPages \cup failedPages = 1..Len(pages)
              /\ \A k \in (1..Len(pages)) \ failedPages : PageFileOf(k) \in DOMAIN docs

\* The manifest entries of the attachments at the positions of done, in the
\* order of the list atts, from position k on.
RECURSIVE ManifestFrom(_, _, _)
ManifestFrom(atts, done, k) ==
    IF k > Len(atts) THEN <<>>
    ELSE (IF k \in done THEN <<ManifestEntry(atts[k].title[1])>> ELSE <<>>)
         \o ManifestFrom(atts, done, k + 1)

\* C3 as stated: when download_attachments has gone through a page's
\* attachment list and returned to download_space (which then writes the
\* document), every attachment of the list was attempted, whichever of them
\* failed, and the manifest holds exactly the attachments written in full, in
\* the order of the list, each with the path attachments/<filename>.
C3_AttachmentFailureIsolated ==
    (pc = "write" /\ loopEntered) =>
        /\ visited = 1..Len(attachments)
        /\ downloaded_attachments = ManifestFrom(attachments, complete, 1)

\* C4 as stated, read in the claim's favour (two successful pages of one
\* sanitized title share their file): after the run every successfully
\* processed page has its document file, and every document file on disk is the
\* complete document of a successfully processed page: none is there, created,
\* truncated or partly written, on account of a page that failed.
C4_NoDocumentOfFailedPage ==
    Ended =>
        /\ \A k \in okPages : PageFileOf(k) \in DOMAIN docs
        /\ \A d \in DOMAIN docs : docs[d].full /\ docs[d].page \in okPages

\* The largest element of a non-empty set of numbers.
Max(S) == CHOOSE x \in S : \A y \in S : y <= x

\* C10 as stated: after the run, each document path holds exactly the document
\* of the last successfully processed page, in listing order, that has that
\* sanitized title, and there are as many document files as distinct sanitized
\* titles among the successfully processed pages.
C10_LastDuplicateWins ==
    Ended =>
        /\ \A d \in DOMAIN docs :
              LET writers == {k \in okPages : PageFileOf(k) = d}
              IN  /\ writers # {}
                  /\ docs[d].page = Max(writers)
                  /\ docs[d].full
        /\ Cardinality(DOMAIN docs)
              = Cardinality({SafeTitle(pages[k].title[1]) : k \in okPages})

\* ------------------------------------------------------------------ attachment files

\* C6 as stated: an attachment file written for one page is never overwritten
\* by an attachment of a different page: the page a file belongs to never changes.
C6_NeverOverwrittenAcrossPages ==
    [][\A f \in DOMAIN attFiles : attFiles'[f].page = attFiles[f].page]_vars

\* Every attachment file lies in the attachments subdirectory of the workspace
\* directory, under the attachment's display file name, and belongs to a page
\* the loop has taken up.
C6_InSharedDirectory ==
    \A f \in DOMAIN attFiles :
        /\ f.dir = <<"space_dir", "attachments">>
        /\ f.name \in Filenames
        /\ attFiles[f].page \in 1..i

\* A step that downloads an attachment in full, or changes the attachment
\* files at all, leaves the file named by the current attachment holding the
\* current page's attachment, whichever page the file belonged to before, and
\* leaves every other file as it was.
C6_WriterOwns ==
    (complete' \ complete # {} \/ attFiles' # attFiles) =>
        LET f == AttachmentPath("space_dir", filename'[1])
        IN  /\ pc = "attachment"
            /\ f \in DOMAIN attFiles'
            /\ attFiles'[f].page = pages[i].id[1]
            /\ complete' \ complete # {} => attFiles'[f].full
            /\ \A g \in DOMAIN attFiles' \ {f} :
                  g \in DOMAIN attFiles /\ attFiles'[g] = attFiles[g]

\* C6, amended: every attachment file on disk lies in the one attachments
\* subdirectory of the workspace directory, which all pages share, under its
\* display file name, and holds the bytes of one attachment of the page that
\* wrote that file name last: a later page's attachment of the same display
\* file name overwrites the earlier page's file.
C6_SharedDirectoryLastWriter == []C6_InSharedDirectory /\ [][C6_WriterOwns]_vars

\* C6's case: the complete document of one page lists an attachment whose file
\* now holds the attachment of another page.
C6_Witness ==
    \E d \in DOMAIN docs :
        /\ docs[d].full
        /\ \E k \in 1..Len(docs[d].text.attachments) :
              LET f == AttachmentPath("space_dir", docs[d].text.attachments[k].filename)
              IN  f \in DOMAIN attFiles /\ attFiles[f].page # docs[d].page

====
